---- MODULE Spec2Model ----
(***************************************************************************)
(* Model of the JSON merger core of fiqto/mjson (src/lib/json-utils.ts):   *)
(* the structure-compatibility check (validateStructureConsistency), the   *)
(* merge (mergeJsonFiles / deepMerge) and the serialisation of the merged  *)
(* value (downloadJsonFile), driven the way components/JsonMerger drives   *)
(* them; and of the page around it (app/page.tsx, components/JsonUploader, *)
(* JsonMerger, DownloadButton): files are dropped, validated and uploaded, *)
(* removed again, merged, and the merged result is downloaded.             *)
(*                                                                         *)
(* JavaScript values are tagged records: k is the kind, v the payload.     *)
(* Besides the six JSON kinds there is the value undefined, which deepMerge*)
(* can produce, and the object Object.prototype, which a property read can *)
(* return.  Objects are functions from their own keys to values.           *)
(***************************************************************************)
EXTENDS Integers, Sequences, FiniteSets, TLC

VARIABLES files, pc, structureValidation, mergeResult, prefixResult, chainedResult, heap,
          uploader, page, merger, download

\* the merger core on given files
coreVars == <<files, pc, structureValidation, mergeResult, prefixResult, chainedResult, heap>>

\* the page: JsonUploader, Home, JsonMerger, DownloadButton
pageVars == <<uploader, page, merger, download>>

vars == <<coreVars, pageVars>>

(***************************************************************************)
(* Bounds of the explored inputs.                                          *)
(***************************************************************************)
MaxFiles == 3
MaxMapFiles == 2
\* the page: drops of files, files in one drop, clicks on Download
MaxDrops == 2
MaxBatch == 2
MaxClicks == 2

(***************************************************************************)
(* Values.                                                                 *)
(***************************************************************************)
Null == [k |-> "null"]
Undefined == [k |-> "undefined"]
Num(n) == [k |-> "number", v |-> n]
Str(s) == [k |-> "string", v |-> s]
Bool(b) == [k |-> "boolean", v |-> b]
List(s) == [k |-> "array", v |-> s]
Map(f) == [k |-> "object", v |-> f]
NoKeys == [key \in {} |-> Null]
ObjectPrototype == [k |-> "object", v |-> NoKeys, builtin |-> "Object.prototype"]

\* Array.isArray(value)
IsArray(value) == value.k = "array"

\* typeof value
TypeOf(value) ==
  IF value.k \in {"null", "array", "object"} THEN "object" ELSE value.k

\* value === null || value === undefined
IsNullish(value) == value.k \in {"null", "undefined"}

\* a plain (non-array, non-null) object
IsObject(value) == value.k = "object"

\* Object.keys(value) of an object
OwnKeys(value) == DOMAIN value.v

\* target[key]: the own property, else what Object.prototype gives.  Of the
\* names Object.prototype defines, the documents explored use "__proto__"
\* and "hasOwnProperty" as keys; deepMerge throws before it reads a key of a
\* source that has "hasOwnProperty", so only "__proto__" is read here.
Get(target, key) ==
  IF key \in OwnKeys(target) THEN target.v[key]
  ELSE IF key = "__proto__" THEN ObjectPrototype
  ELSE Undefined

\* result[key] = value on an object whose prototype is Object.prototype:
\* an own property is written; "__proto__" that is not an own property goes
\* to the setter of Object.prototype, which creates no own property (it
\* ignores a primitive, and here an object value is Object.prototype itself)
Put(result, key, value) ==
  IF key = "__proto__" /\ key \notin DOMAIN result
  THEN result
  ELSE [x \in DOMAIN result \cup {key} |-> IF x = key THEN value ELSE result[x]]

(***************************************************************************)
(* json-utils.ts: the compatibility check.                                 *)
(***************************************************************************)

\* a hash that looks into an object: it tells an object without keys from
\* one with keys
generateCompatibleStructureHash_KeyCount(obj) ==
  IF IsArray(obj) THEN "[\"array\",\"flexible-object\"]"
  ELSE IF TypeOf(obj) = "object" /\ obj # Null
       THEN IF OwnKeys(obj) = {} THEN "[\"object\",[]]"
            ELSE "[\"object\",\"flexible-properties\"]"
       ELSE "\"" \o TypeOf(obj) \o "\""

\* JSON.stringify of the strings and string pairs the hash is made of
generateCompatibleStructureHash(obj) ==
  IF IsArray(obj) THEN "[\"array\",\"flexible-object\"]"
  ELSE IF TypeOf(obj) = "object" /\ obj # Null
       THEN "[\"object\",\"flexible-properties\"]"
       ELSE "\"" \o TypeOf(obj) \o "\""

\* An error text is the sequence of the pieces of its template literal.
RootTypeError(name, baseName) ==
  <<"File \"", name, "\" has different root type than \"", baseName,
    "\" (array vs object)">>

ArrayElementError(name, baseName) ==
  <<"File \"", name, "\" has incompatible array element structure than \"",
    baseName, "\"">>

ObjectStructureError(name, baseName) ==
  <<"File \"", name, "\" has incompatible object structure than \"",
    baseName, "\"">>

\* the array branch without its test for an empty array: content[0] is then
\* undefined, and typeof undefined is hashed
ArrayStructures_NoEmptyCase(fs) ==
  [i \in 1..Len(fs) |->
     Str(generateCompatibleStructureHash(
           IF IsArray(fs[i].content)
           THEN IF Len(fs[i].content.v) = 0 THEN Undefined ELSE fs[i].content.v[1]
           ELSE fs[i].content))]

\* files.map(...) of the array branch: null for an empty array, else the
\* hash of its first element (JavaScript index 0 is index 1 here)
ArrayStructures(fs) ==
  [i \in 1..Len(fs) |->
     IF IsArray(fs[i].content) /\ Len(fs[i].content.v) = 0
     THEN Null
     ELSE Str(generateCompatibleStructureHash(
            IF IsArray(fs[i].content) THEN fs[i].content.v[1]
            ELSE fs[i].content))]

\* files.map(...) of the object branch
ObjectStructures(fs) ==
  [i \in 1..Len(fs) |-> Str(generateCompatibleStructureHash(fs[i].content))]

\* a loop that goes on after a mismatch and reports the last one
FirstIndex_Last(bad) == CHOOSE i \in bad : \A j \in bad : i >= j

\* the first index a loop "for (i = 1; ...) if (bad(i)) return" returns at
FirstIndex(bad) == CHOOSE i \in bad : \A j \in bad : i <= j

\* the root-type loop started at i = 2 instead of i = 1
RootMismatches_FromTwo(fs) ==
  {i \in 3..Len(fs) : IsArray(fs[i].content) # IsArray(fs[1].content)}

\* the files at which the root-type loop finds isFirstArray !== isCurrentArray
RootMismatches(fs) ==
  {i \in 2..Len(fs) : IsArray(fs[i].content) # IsArray(fs[1].content)}

validateStructureConsistency(fs) ==
  IF Len(fs) = 0 THEN [isValid |-> FALSE, error |-> <<"No files to validate">>]
  ELSE IF Len(fs) = 1 THEN [isValid |-> TRUE]
  ELSE
    LET isFirstArray == IsArray(fs[1].content)
        rootBad == RootMismatches(fs)
        arr == ArrayStructures(fs)
        arrBad == {i \in 2..Len(fs) :
                     arr[i] # Null /\ arr[1] # Null /\ arr[i] # arr[1]}
        obj == ObjectStructures(fs)
        objBad == {i \in 2..Len(fs) : obj[i] # obj[1]}
    IN IF rootBad # {}
       THEN [isValid |-> FALSE,
             error |-> RootTypeError(fs[FirstIndex(rootBad)].name, fs[1].name)]
       ELSE IF isFirstArray
       THEN IF arrBad # {}
            THEN [isValid |-> FALSE,
                  error |-> ArrayElementError(fs[FirstIndex(arrBad)].name, fs[1].name)]
            ELSE [isValid |-> TRUE]
       ELSE IF objBad # {}
            THEN [isValid |-> FALSE,
                  error |-> ObjectStructureError(fs[FirstIndex(objBad)].name, fs[1].name)]
            ELSE [isValid |-> TRUE]

(***************************************************************************)
(* json-utils.ts: the merge.                                               *)
(***************************************************************************)

\* what deepMerge evaluates to when source.hasOwnProperty(key) throws
Thrown == [k |-> "throw", message |-> "source.hasOwnProperty is not a function"]

\* [...source, ...target]: the two arrays spread in the wrong order
SpreadArrays_SourceFirst(target, source) == List(source.v \o target.v)

\* [...target, ...source]
SpreadArrays(target, source) == List(target.v \o source.v)

\* the for-in loop of deepMerge over the keys not yet visited
RECURSIVE deepMerge(_, _), MergeKeys(_, _, _, _)

MergeKeys(result, target, source, keys) ==
  IF keys = {} THEN Map(result)
  ELSE LET key == CHOOSE x \in keys : TRUE
           value == deepMerge(Get(target, key), source.v[key])
       IN IF value = Thrown THEN Thrown
          ELSE MergeKeys(Put(result, key, value), target, source, keys \ {key})

deepMerge(target, source) ==
  IF IsNullish(source) THEN target
  ELSE IF IsNullish(target) THEN source
  ELSE IF IsArray(target) /\ IsArray(source) THEN SpreadArrays(target, source)
  ELSE IF IsObject(target) /\ IsObject(source)
       THEN IF OwnKeys(source) = {} THEN Map(target.v)
            ELSE IF "hasOwnProperty" \in OwnKeys(source) THEN Thrown
            ELSE MergeKeys(target.v, target, source, OwnKeys(source))
  ELSE source

\* files.reduce((acc, file) => deepMerge(acc, file.content), seed); an
\* exception leaves the reduce at once
RECURSIVE Reduce(_, _, _)
Reduce(fs, i, acc) ==
  IF acc = Thrown \/ i > Len(fs) THEN acc
  ELSE Reduce(fs, i + 1, deepMerge(acc, fs[i].content))

\* mergeJsonFiles without its call of validateStructureConsistency
mergeJsonFiles_Unvalidated(fs) ==
  IF Len(fs) = 0 THEN [success |-> FALSE, error |-> <<"No files to merge">>]
  ELSE LET merged == Reduce(fs, 1, IF IsArray(fs[1].content) THEN List(<<>>) ELSE Map(NoKeys))
       IN IF merged = Thrown
          THEN [success |-> FALSE, error |-> <<Thrown.message>>]
          ELSE [success |-> TRUE, data |-> merged]

\* mergeJsonFiles without its test for no files
mergeJsonFiles_NoEmptyCheck(fs) ==
  LET validation == validateStructureConsistency(fs)
  IN IF ~validation.isValid
     THEN [success |-> FALSE, error |-> validation.error]
     ELSE LET merged == Reduce(fs, 1, IF IsArray(fs[1].content) THEN List(<<>>) ELSE Map(NoKeys))
          IN IF merged = Thrown
             THEN [success |-> FALSE, error |-> <<Thrown.message>>]
             ELSE [success |-> TRUE, data |-> merged]

\* mergeJsonFiles without try/catch: the exception of deepMerge leaves it
mergeJsonFiles_NoCatch(fs) ==
  IF Len(fs) = 0 THEN [success |-> FALSE, error |-> <<"No files to merge">>]
  ELSE LET validation == validateStructureConsistency(fs)
       IN IF ~validation.isValid
          THEN [success |-> FALSE, error |-> validation.error]
          ELSE LET merged == Reduce(fs, 1, IF IsArray(fs[1].content) THEN List(<<>>) ELSE Map(NoKeys))
               IN IF merged = Thrown THEN Thrown
                  ELSE [success |-> TRUE, data |-> merged]

mergeJsonFiles(fs) ==
  IF Len(fs) = 0 THEN [success |-> FALSE, error |-> <<"No files to merge">>]
  ELSE LET validation == validateStructureConsistency(fs)
       IN IF ~validation.isValid
          THEN [success |-> FALSE, error |-> validation.error]
          ELSE LET isArrayType == IsArray(fs[1].content)
                   merged == Reduce(fs, 1, IF isArrayType THEN List(<<>>) ELSE Map(NoKeys))
               IN IF merged = Thrown
                  THEN [success |-> FALSE, error |-> <<Thrown.message>>]
                  ELSE [success |-> TRUE, data |-> merged]

\* The JSON document that JSON.stringify(data, null, 2) writes, as the value
\* JSON.parse reads back from it: a property whose value is undefined is
\* left out, an undefined array element is written as null.
RECURSIVE jsonString(_)
jsonString(data) ==
  IF IsArray(data)
  THEN List([i \in 1..Len(data.v) |->
               IF data.v[i] = Undefined THEN Null ELSE jsonString(data.v[i])])
  ELSE IF IsObject(data)
  THEN Map([key \in {x \in OwnKeys(data) : data.v[x] # Undefined} |->
               jsonString(data.v[key])])
  ELSE data

\* the file a downloaded merge result is when it is uploaded again
downloadJsonFile(data) == [name |-> "merged-data.json", content |-> jsonString(data)]

(***************************************************************************)
(* The same merge on a heap: arrays and objects are cells with an address, *)
(* a value is a primitive or a reference to a cell, an assignment writes   *)
(* into a cell.  This is where it shows whether deepMerge writes into the  *)
(* objects it was given.                                                   *)
(***************************************************************************)
Ref(a) == [k |-> "ref", a |-> a]

IsRef(value) == value.k = "ref"

\* allocation of a new array or object
Alloc(h, cell) == [h |-> Append(h, cell), v |-> Ref(Len(h) + 1)]

\* JSON.parse building the value in the heap
RECURSIVE Store(_, _), StoreElems(_, _, _), StoreProps(_, _, _, _)
Store(h, value) ==
  IF value.k = "array"
  THEN LET r == StoreElems(h, value.v, <<>>) IN Alloc(r.h, [k |-> "array", v |-> r.v])
  ELSE IF value.k = "object"
  THEN LET r == StoreProps(h, value.v, DOMAIN value.v, NoKeys)
       IN Alloc(r.h, [k |-> "object", v |-> r.v])
  ELSE [h |-> h, v |-> value]

StoreElems(h, elems, done) ==
  IF elems = <<>> THEN [h |-> h, v |-> done]
  ELSE LET r == Store(h, Head(elems))
       IN StoreElems(r.h, Tail(elems), Append(done, r.v))

StoreProps(h, props, keys, done) ==
  IF keys = {} THEN [h |-> h, v |-> done]
  ELSE LET key == CHOOSE x \in keys : TRUE
           r == Store(h, props[key])
       IN StoreProps(r.h, props, keys \ {key},
                     [x \in DOMAIN done \cup {key} |-> IF x = key THEN r.v ELSE done[x]])

\* the JsonFile objects { name, content } of the uploaded files
RECURSIVE LoadFiles(_, _, _)
LoadFiles(h, fs, refs) ==
  IF Len(refs) = Len(fs) THEN [h |-> h, v |-> refs]
  ELSE LET file == fs[Len(refs) + 1]
           c == Store(h, file.content)
           f == Alloc(c.h, [k |-> "object", v |-> [name |-> Str(file.name), content |-> c.v]])
       IN LoadFiles(f.h, fs, Append(refs, f.v))

\* the value a heap value stands for
RECURSIVE Deref(_, _)
Deref(h, value) ==
  IF ~IsRef(value) THEN value
  ELSE LET cell == h[value.a]
       IN IF cell.k = "array"
          THEN List([i \in 1..Len(cell.v) |-> Deref(h, cell.v[i])])
          ELSE Map([key \in DOMAIN cell.v |-> Deref(h, cell.v[key])])

IsArrayAt(h, value) == IsRef(value) /\ h[value.a].k = "array"

IsObjectAt(h, value) == value = ObjectPrototype \/ (IsRef(value) /\ h[value.a].k = "object")

\* the own properties of an object
PropsAt(h, value) == IF IsRef(value) THEN h[value.a].v ELSE NoKeys

\* target[key]
GetAt(h, target, key) ==
  IF key \in DOMAIN PropsAt(h, target) THEN PropsAt(h, target)[key]
  ELSE IF key = "__proto__" THEN ObjectPrototype
  ELSE Undefined

\* result[key] = value
PutAt(h, result, key, value) ==
  [h EXCEPT ![result.a].v = Put(h[result.a].v, key, value)]

\* const result = target: no copy is made
SpreadObject_Alias(h, target) ==
  IF IsRef(target) THEN [h |-> h, v |-> target]
  ELSE Alloc(h, [k |-> "object", v |-> NoKeys])

\* const result = { ...target }
SpreadObject(h, target) == Alloc(h, [k |-> "object", v |-> PropsAt(h, target)])

RECURSIVE deepMergeAt(_, _, _), MergeKeysAt(_, _, _, _, _)

MergeKeysAt(h, result, target, source, keys) ==
  IF keys = {} THEN [h |-> h, v |-> result]
  ELSE LET key == CHOOSE x \in keys : TRUE
           m == deepMergeAt(h, GetAt(h, target, key), PropsAt(h, source)[key])
       IN IF m.v = Thrown THEN m
          ELSE MergeKeysAt(PutAt(m.h, result, key, m.v), result, target, source, keys \ {key})

deepMergeAt(h, target, source) ==
  IF IsNullish(source) THEN [h |-> h, v |-> target]
  ELSE IF IsNullish(target) THEN [h |-> h, v |-> source]
  ELSE IF IsArrayAt(h, target) /\ IsArrayAt(h, source)
  THEN Alloc(h, [k |-> "array", v |-> h[target.a].v \o h[source.a].v])
  ELSE IF IsObjectAt(h, target) /\ IsObjectAt(h, source)
  THEN LET r == SpreadObject(h, target)
           keys == DOMAIN PropsAt(h, source)
       IN IF "hasOwnProperty" \in keys THEN [h |-> r.h, v |-> Thrown]
          ELSE MergeKeysAt(r.h, r.v, target, source, keys)
  ELSE [h |-> h, v |-> source]

RECURSIVE ReduceAt(_, _, _, _)
ReduceAt(h, refs, i, acc) ==
  IF acc = Thrown \/ i > Len(refs) THEN [h |-> h, v |-> acc]
  ELSE LET m == deepMergeAt(h, acc, h[refs[i].a].v.content)
       IN ReduceAt(m.h, refs, i + 1, m.v)

\* the JsonFile values of the file objects
FilesAt(h, refs) ==
  [i \in 1..Len(refs) |->
     [name |-> h[refs[i].a].v.name.v, content |-> Deref(h, h[refs[i].a].v.content)]]

\* mergeJsonFiles on the heap: the heap after the call and what it returns
mergeJsonFilesAt(h, refs) ==
  IF Len(refs) = 0
  THEN [h |-> h, v |-> [success |-> FALSE, error |-> <<"No files to merge">>]]
  ELSE LET validation == validateStructureConsistency(FilesAt(h, refs))
       IN IF ~validation.isValid
          THEN [h |-> h, v |-> [success |-> FALSE, error |-> validation.error]]
          ELSE LET seed == Alloc(h, IF IsArrayAt(h, h[refs[1].a].v.content)
                                    THEN [k |-> "array", v |-> <<>>]
                                    ELSE [k |-> "object", v |-> NoKeys])
                   m == ReduceAt(seed.h, refs, 1, seed.v)
               IN IF m.v = Thrown
                  THEN [h |-> m.h, v |-> [success |-> FALSE, error |-> <<Thrown.message>>]]
                  ELSE [h |-> m.h, v |-> [success |-> TRUE, data |-> m.v]]

\* a merge result with its data as a value
ResultAt(h, result) ==
  IF result.success THEN [success |-> TRUE, data |-> Deref(h, result.data)]
  ELSE result

(***************************************************************************)
(* The documents explored.  Every root is an array or an object, as        *)
(* validateJsonString requires.  A "__proto__" key only carries primitive  *)
(* values here, so the prototype of every object stays Object.prototype.   *)
(***************************************************************************)
ListElems == {Null, Num(1), Map([a |-> Num(1)])}

ListRoots ==
  {List(<<>>)} \cup {List(<<e>>) : e \in ListElems}
  \cup {List(<<e, f>>) : e \in ListElems, f \in ListElems}
  \cup {List(<<Num(1), Num(2), Num(3)>>), List(<<Num(2), Num(1)>>),
        List(<<Map([a |-> Num(2), b |-> Num(3)])>>),
        List(<<Map([a |-> Null])>>),
        List(<<Str("s")>>), List(<<Bool(TRUE)>>), List(<<List(<<Num(1)>>)>>)}

MapKeys == {"a", "d"}

MapVals == {Null, Num(1), Num(2), List(<<Num(1)>>), Map([a |-> Num(1)]), Map([d |-> Null])}

MapRoots ==
  {Map(f) : f \in UNION {[K -> MapVals] : K \in SUBSET MapKeys}}
  \cup {Map([a |-> Num(1), b |-> Num(2)]), Map([b |-> Num(3), c |-> Num(4)]),
        Map([a |-> List(<<Num(1), Num(2)>>)]),
        Map([a |-> List(<<Num(3)>>), d |-> Null]),
        Map([x |-> Num(1)]),
        Map([hasOwnProperty |-> Num(1)]),
        Map([a |-> Map([hasOwnProperty |-> Num(1)])]),
        Map([key \in {"__proto__"} |-> Num(1)])}

MixedRoots ==
  {List(<<>>), List(<<Num(1), Num(2), Num(3)>>), List(<<Str("s")>>),
   Map([x |-> Num(1)]), Map(NoKeys)}

SeqsUpTo(S, n) == UNION {[1..m -> S] : m \in 0..n}

Inputs ==
  SeqsUpTo(ListRoots, MaxFiles) \cup SeqsUpTo(MapRoots, MaxMapFiles)
  \cup SeqsUpTo(MixedRoots, MaxFiles)

\* file names by upload position
FileName == <<"f0.json", "f1.json", "f2.json", "f3.json", "f4.json">>

JsonFiles(roots) == [i \in 1..Len(roots) |-> [name |-> FileName[i], content |-> roots[i]]]

(***************************************************************************)
(* The page.  A dropped File has a name and a text (or cannot be read).    *)
(* JSON.parse is the engine's: it is given by what it returns for the      *)
(* texts explored.  Error texts are sequences of pieces, as above.         *)
(***************************************************************************)
Text(t) == [k |-> "text", v |-> t]

\* file.text() rejects
Unreadable == [k |-> "throw", message |-> "The requested file could not be read"]

SyntaxError(message) == [k |-> "throw", message |-> message]

\* JSON.parse(text)
JSONParse(text) ==
  CASE text = "[1]" -> List(<<Num(1)>>)
    [] text = "{\"a\":1}" -> Map([a |-> Num(1)])
    [] text = "5" -> Num(5)
    [] text = "null" -> Null
    [] text = "{bad" -> SyntaxError("Unexpected token b in JSON at position 1")

\* generateStructureHash: getStructure
RECURSIVE getStructure(_)
getStructure(value) ==
  IF value = Null THEN [t |-> "nullable"]
  ELSE IF IsArray(value)
  THEN [t |-> "array",
        of |-> IF Len(value.v) > 0 THEN getStructure(value.v[1]) ELSE [t |-> "empty"]]
  ELSE IF TypeOf(value) = "object"
  THEN [t |-> "object", properties |-> [key \in OwnKeys(value) |-> getStructure(value.v[key])]]
  ELSE [t |-> TypeOf(value)]

\* generateStructureHash: normalizeStructure
RECURSIVE normalizeStructure(_)
normalizeStructure(structure) ==
  IF structure.t = "object"
  THEN [t |-> "object",
        properties |->
          [key \in DOMAIN structure.properties |->
             LET normalized == normalizeStructure(structure.properties[key])
             IN IF normalized.t \in {"nullable", "object", "string", "number", "boolean"}
                THEN [t |-> "nullable-field"]
                ELSE normalized]]
  ELSE IF structure.t = "array"
  THEN [t |-> "array", of |-> normalizeStructure(structure.of)]
  ELSE structure

\* the normalized structure; JSON.stringify writes it with the keys sorted,
\* one text for each structure
generateStructureHash(obj) == normalizeStructure(getStructure(obj))

\* validateJsonString without the test of the root
validateJsonString_AnyRoot(text) ==
  LET parsed == JSONParse(text)
  IN IF parsed.k = "throw" THEN [isValid |-> FALSE, error |-> <<parsed.message>>]
     ELSE [isValid |-> TRUE, structureHash |-> generateStructureHash(parsed)]

validateJsonString(text) ==
  LET parsed == JSONParse(text)
  IN IF parsed.k = "throw" THEN [isValid |-> FALSE, error |-> <<parsed.message>>]
     ELSE IF TypeOf(parsed) # "object" \/ parsed = Null
     THEN [isValid |-> FALSE, error |-> <<"JSON must be an object or array at root level">>]
     ELSE [isValid |-> TRUE, structureHash |-> generateStructureHash(parsed)]

\* file.name.toLowerCase().endsWith('.json'), for the names explored
HasJsonExtension(name) ==
  name \in {"a.json", "B.JSON", "c.json", "n.json", "x.json", "u.json"}

\* processFiles: the rest of the loop body for the file whose text was read
\* (or could not be read); b holds the locals of processFiles.  The id of a
\* JsonFile (name, Date.now(), Math.random()) is the name with a reading that
\* is new each time; its size is only displayed and is left out.
ProcessFile(b, clock) ==
  LET file == b.files[b.i]
      validation == validateJsonString(file.text.v)
  IN IF file.text.k = "throw"
     THEN [b EXCEPT !.i = @ + 1,
                    !.errors = Append(@, [fileName |-> file.name, error |-> <<file.text.message>>])]
     ELSE IF ~validation.isValid
     THEN [b EXCEPT !.i = @ + 1,
                    !.errors = Append(@, [fileName |-> file.name, error |-> validation.error])]
     ELSE [b EXCEPT !.i = @ + 1,
                    !.newJsonFiles = Append(@, [id |-> <<file.name, clock>>, name |-> file.name,
                                                content |-> JSONParse(file.text.v)])]

\* processFiles: the loop up to the next await file.text(), or to its end
RECURSIVE SkipToAwait(_)
SkipToAwait(b) ==
  IF b.i > Len(b.files) \/ HasJsonExtension(b.files[b.i].name) THEN b
  ELSE SkipToAwait([b EXCEPT !.i = @ + 1,
                             !.errors = Append(@, [fileName |-> b.files[b.i].name,
                                                   error |-> <<"File must have .json extension">>])])

\* Home.handleFilesChange
handleFilesChange(p, fs) ==
  [p EXCEPT !.uploadedFiles = fs, !.mergeResult = IF Len(fs) = 0 THEN Null ELSE @]

\* Home.handleUploadErrors
handleUploadErrors(p, errors) == [p EXCEPT !.uploadErrors = errors]

\* Home.handleMergeResult
handleMergeResult(p, result) == [p EXCEPT !.mergeResult = result]

\* JsonMerger: the memoized structureValidation
MergerValidation(fs) ==
  IF Len(fs) = 0 THEN [isValid |-> FALSE, error |-> <<"No files uploaded">>]
  ELSE validateStructureConsistency(fs)

\* JsonMerger: the memoized mergeResult
MergerResult(fs) ==
  IF ~MergerValidation(fs).isValid \/ Len(fs) = 0 THEN Null ELSE mergeJsonFiles(fs)

\* JsonMerger: what its effect hands to onMergeResult
EffectResult(fs) ==
  IF MergerResult(fs) # Null THEN MergerResult(fs)
  ELSE [success |-> FALSE, error |-> MergerValidation(fs).error]

\* JsonMerger: the dependencies of its effect
EffectDeps(fs) ==
  [mergeResult |-> MergerResult(fs), length |-> Len(fs),
   isValid |-> MergerValidation(fs).isValid,
   error |-> IF MergerValidation(fs).isValid THEN Undefined
             ELSE [k |-> "string", v |-> MergerValidation(fs).error]]

\* DownloadButton: it is rendered while mergeResult is not null; an unmounted
\* button loses its state, and the timers it started no longer reach it.
\* A timer holds the data handleDownload was started with, and with it the
\* mergeResult the button was rendered from; a call of downloadJsonFile is
\* recorded with both and with the mergeResult of the page at the call.
Button(d, p) ==
  IF p.mergeResult # Null THEN d
  ELSE [d EXCEPT !.isDownloading = FALSE,
                 !.timers = [i \in 1..Len(@) |-> [@[i] EXCEPT !.live = FALSE]]]

\* The render after a handler set the state to p.  The effect of a render
\* that no click caused (processFiles going on after its await) runs after
\* the paint, so a handler can run before it; the effect still pending then
\* runs before the next render, its setMergeResult after the handler's.  newFiles: the handler passed a new files array, so JsonMerger
\* computes its memos again; its effect runs when a dependency changed.
Rendered(p, m, newFiles) ==
  LET fs == p.uploadedFiles
      flushed == IF m.pending # Null THEN handleMergeResult(p, m.pending.result) ELSE p
      rerun == ~m.mounted \/ MergerResult(fs) # Null \/ EffectDeps(fs) # m.deps
  IN [page |-> flushed,
      merger |->
        IF Len(fs) = 0 THEN [mounted |-> FALSE, deps |-> Null, pending |-> Null]
        ELSE IF newFiles
        THEN [mounted |-> TRUE, deps |-> EffectDeps(fs),
              pending |-> IF rerun THEN [result |-> EffectResult(fs)] ELSE Null]
        ELSE [m EXCEPT !.pending = Null]]

\* processFiles after its loop
Finished(u, p, b) ==
  LET updatedFiles == b.closure \o b.newJsonFiles
      changed == handleFilesChange(p, updatedFiles)
  IN [uploader |-> [u EXCEPT !.uploadedFiles = updatedFiles, !.isProcessing = FALSE,
                             !.batch = b],
      page |-> IF Len(b.errors) > 0 THEN handleUploadErrors(changed, b.errors) ELSE changed]

\* the files that can be dropped, as the file manager lists them
Dropped ==
  <<[name |-> "a.json", text |-> Text("[1]")],
    [name |-> "B.JSON", text |-> Text("{\"a\":1}")],
    [name |-> "c.json", text |-> Text("5")],
    [name |-> "n.json", text |-> Text("null")],
    [name |-> "x.json", text |-> Text("{bad")],
    [name |-> "notes.txt", text |-> Text("[1]")],
    [name |-> "u.json", text |-> Unreadable]>>

\* the drops: up to MaxBatch different files, in the order listed
Batches ==
  {[i \in 1..Len(b) |-> Dropped[b[i]]] :
     b \in {c \in UNION {[1..n -> 1..Len(Dropped)] : n \in 1..MaxBatch} :
              \A i, j \in 1..Len(c) : i < j => c[i] < c[j]}}

\* the page before anything was dropped
NoUploader ==
  [uploadedFiles |-> <<>>, isProcessing |-> FALSE, batch |-> Null, drops |-> 0, clock |-> 0]

NoPage == [uploadedFiles |-> <<>>, uploadErrors |-> <<>>, mergeResult |-> Null]

NoMerger == [mounted |-> FALSE, deps |-> Null, pending |-> Null]

NoDownload == [isDownloading |-> FALSE, timers |-> <<>>, calls |-> <<>>, clicks |-> 0]

(***************************************************************************)
(* The state machine: JsonMerger validates the uploaded files, merges them,*)
(* and the merge of all files but the last is downloaded and merged with   *)
(* the last file.                                                          *)
(***************************************************************************)
\* the heap once the files are uploaded: the cells, the file objects, and
\* what the last call of mergeJsonFiles returned
Uploaded(fs) ==
  LET l == LoadFiles(<<>>, fs, <<>>)
  IN [cells |-> l.h, files |-> l.v, returned |-> Null]

\* a call of mergeJsonFiles on the file objects refs
Call(h, refs) ==
  LET m == mergeJsonFilesAt(h.cells, refs)
  IN [h EXCEPT !.cells = m.h, !.returned = m.v]

Init ==
  /\ \E roots \in Inputs : files = JsonFiles(roots)
  /\ pc = "start"
  /\ structureValidation = Null
  /\ mergeResult = Null
  /\ prefixResult = Null
  /\ chainedResult = Null
  /\ heap = Uploaded(files)
  /\ uploader = NoUploader
  /\ page = NoPage
  /\ merger = NoMerger
  /\ download = NoDownload

Validate ==
  /\ pc = "start"
  /\ structureValidation' = validateStructureConsistency(files)
  /\ pc' = "validated"
  /\ UNCHANGED <<files, mergeResult, prefixResult, chainedResult, heap, pageVars>>

Merge ==
  /\ pc = "validated"
  /\ mergeResult' = mergeJsonFiles(files)
  /\ heap' = Call(heap, heap.files)
  /\ pc' = "merged"
  /\ UNCHANGED <<files, structureValidation, prefixResult, chainedResult, pageVars>>

MergePrefix ==
  /\ pc = "merged"
  /\ Len(files) >= 2
  /\ prefixResult' = mergeJsonFiles(SubSeq(files, 1, Len(files) - 1))
  /\ heap' = Call(heap, SubSeq(heap.files, 1, Len(files) - 1))
  /\ pc' = "prefix"
  /\ UNCHANGED <<files, structureValidation, mergeResult, chainedResult, pageVars>>

MergeChained ==
  /\ pc = "prefix"
  /\ prefixResult.success
  /\ chainedResult' = mergeJsonFiles(<<downloadJsonFile(prefixResult.data), files[Len(files)]>>)
  /\ LET l == LoadFiles(heap.cells, <<downloadJsonFile(prefixResult.data)>>, <<>>)
     IN heap' = Call([heap EXCEPT !.cells = l.h], <<l.v[1], heap.files[Len(files)]>>)
  /\ pc' = "chained"
  /\ UNCHANGED <<files, structureValidation, mergeResult, prefixResult, pageVars>>

Next == Validate \/ Merge \/ MergePrefix \/ MergeChained

Spec == Init /\ [][Next]_vars

(***************************************************************************)
(* The page as a state machine: files are dropped on JsonUploader and read *)
(* one by one, files are removed, JsonMerger reports to Home, the merged   *)
(* result is downloaded.                                                   *)
(***************************************************************************)
InitPage ==
  /\ files = <<>>
  /\ pc = "page"
  /\ structureValidation = Null
  /\ mergeResult = Null
  /\ prefixResult = Null
  /\ chainedResult = Null
  /\ heap = Uploaded(files)
  /\ uploader = NoUploader
  /\ page = NoPage
  /\ merger = NoMerger
  /\ download = NoDownload

\* what a handler leaves: the uploader u and the page p it set
Commit(u, p, newFiles) ==
  LET r == Rendered(p, merger, newFiles)
  IN /\ uploader' = u
     /\ page' = r.page
     /\ merger' = r.merger
     /\ download' = Button(download, r.page)

\* processFiles from where b stands to its next await or through its end
Continue(u, b) ==
  LET next == SkipToAwait(b)
  IN IF next.i > Len(next.files)
     THEN LET f == Finished(u, page, next) IN Commit(f.uploader, f.page, TRUE)
     ELSE Commit([u EXCEPT !.batch = next, !.isProcessing = TRUE], page, FALSE)

\* onDrop: processFiles starts
OnDrop ==
  /\ ~uploader.isProcessing
  /\ uploader.drops < MaxDrops
  /\ \E acceptedFiles \in Batches :
       Continue([uploader EXCEPT !.drops = @ + 1],
                [files |-> acceptedFiles, i |-> 1, closure |-> uploader.uploadedFiles,
                 newJsonFiles |-> <<>>, errors |-> <<>>])
  /\ UNCHANGED coreVars

\* await file.text() returns or throws: processFiles goes on
FileRead ==
  /\ uploader.isProcessing
  /\ Continue([uploader EXCEPT !.clock = @ + 1], ProcessFile(uploader.batch, uploader.clock))
  /\ UNCHANGED coreVars

RemoveFile ==
  /\ \E file \in {uploader.uploadedFiles[i] : i \in 1..Len(uploader.uploadedFiles)} :
       LET keep(f) == f.id # file.id
           updatedFiles == SelectSeq(uploader.uploadedFiles, keep)
       IN Commit([uploader EXCEPT !.uploadedFiles = updatedFiles],
                 handleFilesChange(page, updatedFiles), TRUE)
  /\ UNCHANGED coreVars

ClearAllFiles ==
  /\ Len(uploader.uploadedFiles) > 0
  /\ Commit([uploader EXCEPT !.uploadedFiles = <<>>], handleFilesChange(page, <<>>), TRUE)
  /\ UNCHANGED coreVars

ClearErrors ==
  /\ Len(page.uploadErrors) > 0
  /\ Commit(uploader, handleUploadErrors(page, <<>>), FALSE)
  /\ UNCHANGED coreVars

\* the effect of JsonMerger runs
MergerEffect ==
  /\ merger.pending # Null
  /\ Commit(uploader, page, FALSE)
  /\ UNCHANGED coreVars

\* handleMergeClick
MergeClick ==
  /\ merger.mounted
  /\ merger.deps.isValid
  /\ Commit(uploader, handleMergeResult(page, mergeJsonFiles(page.uploadedFiles)), FALSE)
  /\ UNCHANGED coreVars

\* DownloadButton: its props
DownloadData == IF page.mergeResult.success THEN page.mergeResult.data ELSE Null

DownloadDisabled == ~page.mergeResult.success

\* handleDownload returning only while a download runs
DownloadRefused_BusyOnly == download.isDownloading

\* handleDownload returns at once
DownloadRefused == DownloadData = Null \/ DownloadDisabled \/ download.isDownloading

\* handleDownload up to its await
HandleDownload ==
  /\ page.mergeResult # Null
  /\ download.clicks < MaxClicks
  /\ ~DownloadRefused
  /\ download' = [download EXCEPT
                    !.isDownloading = TRUE,
                    !.clicks = @ + 1,
                    !.timers = Append(@, [data |-> DownloadData, live |-> TRUE,
                                          clicked |-> page.mergeResult])]
  /\ LET r == Rendered(page, merger, FALSE) IN page' = r.page /\ merger' = r.merger
  /\ UNCHANGED <<uploader, coreVars>>

\* the 300 ms are over: handleDownload goes on (the "Downloaded!" label it
\* then shows for two seconds is left out)
DownloadTimer ==
  /\ Len(download.timers) > 0
  /\ LET timer == Head(download.timers)
     IN download' = [download EXCEPT
                       !.timers = Tail(@),
                       !.isDownloading = IF timer.live THEN FALSE ELSE @,
                       !.calls = Append(@, [data |-> timer.data,
                                            file |-> downloadJsonFile(timer.data),
                                            clicked |-> timer.clicked,
                                            current |-> page.mergeResult])]
  /\ LET r == Rendered(page, merger, FALSE) IN page' = r.page /\ merger' = r.merger
  /\ UNCHANGED <<uploader, coreVars>>

NextPage ==
  \/ OnDrop \/ FileRead \/ RemoveFile \/ ClearAllFiles \/ ClearErrors
  \/ MergerEffect \/ MergeClick \/ HandleDownload \/ DownloadTimer

SpecPage == InitPage /\ [][NextPage]_vars

(***************************************************************************)
(* Vocabulary of the properties.                                           *)
(***************************************************************************)
Validated == pc \in {"validated", "merged", "prefix", "chained"}
Merged == pc \in {"merged", "prefix", "chained"}

Roots == [i \in 1..Len(files) |-> files[i].content]
AllListRoots == \A i \in 1..Len(files) : files[i].content.k = "array"
AllMapRoots == \A i \in 1..Len(files) : files[i].content.k = "object"

\* the six coarse kinds of a JSON value
CoarseKind(value) == value.k

\* the root lists put one after the other, in upload order
RECURSIVE Concatenation(_, _)
Concatenation(fs, n) ==
  IF n = 0 THEN <<>> ELSE Concatenation(fs, n - 1) \o fs[n].content.v

RECURSIVE TotalLength(_, _)
TotalLength(fs, n) ==
  IF n = 0 THEN 0 ELSE TotalLength(fs, n - 1) + Len(fs[n].content.v)

\* C1: merge succeeds only if the compatibility check of the same files
\* succeeded, and when the check fails on a non-empty sequence merge fails
\* with exactly the check's reason and carries no merged value.
C1_MergeOnlyWhenCompatible ==
  Merged =>
    /\ mergeResult.success => structureValidation.isValid
    /\ Len(files) > 0 /\ ~structureValidation.isValid =>
         /\ mergeResult.success = FALSE
         /\ mergeResult.error = structureValidation.error
         /\ "data" \notin DOMAIN mergeResult

C1_Witness ==
  /\ pc = "merged"
  /\ Len(files) = 3
  /\ ~structureValidation.isValid
  /\ mergeResult = [success |-> FALSE, error |-> structureValidation.error]

\* C2: for compatible List-root files the merged value is the concatenation
\* of the root lists in upload order: every element kept, none merged or
\* removed, length the sum of the lengths.
C2_ListRootsConcatenate ==
  /\ Merged /\ Len(files) > 0 /\ AllListRoots /\ structureValidation.isValid =>
       /\ mergeResult.success
       /\ mergeResult.data = List(Concatenation(files, Len(files)))
       /\ Len(mergeResult.data.v) = TotalLength(files, Len(files))
  /\ Merged /\ Roots = <<List(<<Map([a |-> Num(1)])>>),
                         List(<<Map([a |-> Num(2), b |-> Num(3)])>>)>> =>
       /\ mergeResult.success
       /\ mergeResult.data = List(<<Map([a |-> Num(1)]), Map([a |-> Num(2), b |-> Num(3)])>>)

C2_Witness ==
  /\ pc = "merged"
  /\ Roots = <<List(<<Num(2), Num(1)>>), List(<<>>), List(<<Num(1), Num(2), Num(3)>>)>>
  /\ mergeResult.success
  /\ mergeResult.data = List(<<Num(2), Num(1), Num(1), Num(2), Num(3)>>)

\* the values a key carries in the documents that have it, in upload order
RECURSIVE ValuesOf(_, _, _)
ValuesOf(docs, n, key) ==
  IF n = 0 THEN <<>>
  ELSE IF key \in OwnKeys(docs[n])
       THEN Append(ValuesOf(docs, n - 1, key), docs[n].v[key])
       ELSE ValuesOf(docs, n - 1, key)

AllKeys(docs) == UNION {OwnKeys(docs[i]) : i \in 1..Len(docs)}

\* every key of the merged documents is a key of the merged value, also
\* below a key under which only Maps were merged
RECURSIVE KeysKept(_, _)
KeysKept(docs, out) ==
  /\ IsObject(out)
  /\ \A key \in AllKeys(docs) :
       /\ key \in OwnKeys(out)
       /\ LET values == ValuesOf(docs, Len(docs), key)
          IN (Len(values) >= 2 /\ \A i \in 1..Len(values) : IsObject(values[i]))
               => KeysKept(values, out.v[key])

MapMergeSucceeded ==
  /\ Merged /\ Len(files) > 0 /\ AllMapRoots
  /\ structureValidation.isValid /\ mergeResult.success

\* C3: for compatible Map-root files the merged Map has every key that any
\* input has, at the root and below every key under which Maps were merged.
C3_NoKeyDropped == MapMergeSucceeded => KeysKept(Roots, mergeResult.data)

IsScalar(value) == value.k \in {"null", "boolean", "number", "string"}

\* merge of the values of one key, in upload order
RECURSIVE MergeInOrder(_, _)
MergeInOrder(values, n) ==
  IF n = 1 THEN values[1] ELSE deepMerge(MergeInOrder(values, n - 1), values[n])

\* C4: in the merge of Map-root files a key of one document alone keeps that
\* document's value, a key of several documents has the merge of their
\* values in upload order, and among scalar values the latest wins;
\* {a:1,b:2} and {b:3,c:4} give {a:1,b:3,c:4}.
C4_KeyValues ==
  /\ MapMergeSucceeded =>
       \A key \in AllKeys(Roots) :
         LET values == ValuesOf(Roots, Len(Roots), key)
         IN /\ key \in OwnKeys(mergeResult.data)
            /\ mergeResult.data.v[key] = MergeInOrder(values, Len(values))
            /\ (\A i \in 1..Len(values) : IsScalar(values[i]))
                 => mergeResult.data.v[key] = values[Len(values)]
  /\ Merged /\ Roots = <<Map([a |-> Num(1), b |-> Num(2)]), Map([b |-> Num(3), c |-> Num(4)])>> =>
       /\ mergeResult.success
       /\ mergeResult.data = Map([a |-> Num(1), b |-> Num(3), c |-> Num(4)])

\* C5: {a:[1,2]} and {a:[3],d:null} merge to {a:[1,2,3],d:null}: the key d,
\* which only the source has, is in the result with the value null.
C5_SourceOnlyNullKept ==
  Merged /\ Roots = <<Map([a |-> List(<<Num(1), Num(2)>>)]),
                      Map([a |-> List(<<Num(3)>>), d |-> Null])>> =>
    /\ mergeResult.success
    /\ "d" \in OwnKeys(mergeResult.data)
    /\ mergeResult.data.v["d"] = Null
    /\ mergeResult.data = Map([a |-> List(<<Num(1), Num(2), Num(3)>>), d |-> Null])

\* C6: the merge of a single document succeeds with that document's root,
\* unchanged.
C6_MergeIdentity ==
  Merged /\ Len(files) = 1 =>
    mergeResult = [success |-> TRUE, data |-> files[1].content]

\* the same outcome: both fail, or both succeed with the same value
SameOutcome(r1, r2) ==
  /\ r1.success = r2.success
  /\ r1.success => r1.data = r2.data

\* C7: for List roots A, B, C, merging [A,B] and then merging the result
\* with C gives the outcome of merging [A,B,C]; when [A,B] cannot be merged
\* neither can [A,B,C].
C7_ListMergeAssociative ==
  Len(files) = 3 /\ AllListRoots =>
    /\ pc = "chained" => SameOutcome(chainedResult, mergeResult)
    /\ pc = "prefix" /\ ~prefixResult.success => ~mergeResult.success

\* C8: when some file's root kind differs from that of file 0, the check
\* fails and its reason names such a file (the first one) and file 0 and
\* ends in "(array vs object)"; [1,2,3] with {x:1} is such a case.
C8_RootKindMismatch ==
  /\ Validated /\ Len(files) >= 2
       /\ (\E i \in 2..Len(files) : CoarseKind(files[i].content) # CoarseKind(files[1].content)) =>
       /\ structureValidation.isValid = FALSE
       /\ \E i \in 2..Len(files) :
            /\ CoarseKind(files[i].content) # CoarseKind(files[1].content)
            /\ \A j \in 2..(i - 1) : CoarseKind(files[j].content) = CoarseKind(files[1].content)
            /\ structureValidation.error[2] = files[i].name
            /\ structureValidation.error[4] = files[1].name
            /\ structureValidation.error[Len(structureValidation.error)] = "\" (array vs object)"
  /\ Validated /\ Roots = <<List(<<Num(1), Num(2), Num(3)>>), Map([x |-> Num(1)])>> =>
       /\ structureValidation.isValid = FALSE
       /\ structureValidation.error[5] = "\" (array vs object)"

C8_Witness ==
  /\ pc = "validated"
  /\ Roots = <<Map(NoKeys), Map([x |-> Num(1)]), List(<<Num(1), Num(2), Num(3)>>)>>
  /\ structureValidation =
       [isValid |-> FALSE,
        error |-> <<"File \"", "f2.json", "\" has different root type than \"",
                    "f0.json", "\" (array vs object)">>]

\* two non-empty root lists whose first elements are of different kinds
MixedElementKinds ==
  \E i, j \in 1..Len(files) :
    /\ Len(files[i].content.v) > 0 /\ Len(files[j].content.v) > 0
    /\ CoarseKind(files[i].content.v[1]) # CoarseKind(files[j].content.v[1])

\* C9: List-root files with two non-empty lists whose first elements have
\* different coarse kinds are rejected by the check and by merge, wherever
\* the two files are and whatever the others are.
C9_MixedListsRejected ==
  Merged /\ AllListRoots /\ MixedElementKinds =>
    /\ structureValidation.isValid = FALSE
    /\ mergeResult.success = FALSE

KindSample(kind) ==
  CASE kind = "null" -> Null
    [] kind = "boolean" -> Bool(FALSE)
    [] kind = "number" -> Num(0)
    [] kind = "string" -> Str("")
    [] kind = "array" -> List(<<>>)
    [] kind = "object" -> Map(NoKeys)

ShapeSample(root) ==
  IF CoarseKind(root) = "object" THEN Map(NoKeys)
  ELSE IF Len(root.v) = 0 THEN List(<<>>)
  ELSE List(<<KindSample(CoarseKind(root.v[1]))>>)

ShapeSamples == [i \in 1..Len(files) |-> ShapeSample(files[i].content)]

RootOffenders == {i \in 2..Len(files) : CoarseKind(files[i].content) # CoarseKind(files[1].content)}

\* the List-root files whose first element differs in kind from the first
\* element of a List-root file 0
ElementOffenders ==
  {i \in 2..Len(files) :
     /\ CoarseKind(files[i].content) = "array" /\ CoarseKind(files[1].content) = "array"
     /\ Len(files[i].content.v) > 0 /\ Len(files[1].content.v) > 0
     /\ CoarseKind(files[i].content.v[1]) # CoarseKind(files[1].content.v[1])}

Lowest(S) == CHOOSE i \in S : \A j \in S : i <= j

\* C12 as stated: a failed verdict on two or more files names file 0 and
\* the lowest-index file that is incompatible with file 0, by root kind or
\* by fingerprint.
C12_NamesLowestOffender ==
  Validated /\ Len(files) >= 2 /\ ~structureValidation.isValid =>
    /\ RootOffenders \cup ElementOffenders # {}
    /\ Len(structureValidation.error) = 5
    /\ structureValidation.error[2] = files[Lowest(RootOffenders \cup ElementOffenders)].name
    /\ structureValidation.error[4] = files[1].name

\* C12 amended: a failed verdict on two or more files carries one reason,
\* which names file 0 and the first offender of the check that failed: the
\* lowest-index file whose root kind differs from file 0's if there is one
\* (root-type reason), else the lowest-index file whose first-element kind
\* differs from file 0's (array-element reason).
C12_NamesFirstOffenderOfFailedCheck ==
  Validated /\ Len(files) >= 2 /\ ~structureValidation.isValid =>
    IF RootOffenders # {}
    THEN structureValidation.error =
           <<"File \"", files[Lowest(RootOffenders)].name,
             "\" has different root type than \"", files[1].name, "\" (array vs object)">>
    ELSE /\ ElementOffenders # {}
         /\ structureValidation.error =
              <<"File \"", files[Lowest(ElementOffenders)].name,
                "\" has incompatible array element structure than \"", files[1].name, "\"">>

C12_Witness ==
  /\ pc = "validated"
  /\ Roots = <<List(<<Num(1), Num(2), Num(3)>>), List(<<Str("s")>>), Map([x |-> Num(1)])>>
  /\ ElementOffenders = {2}
  /\ RootOffenders = {3}
  /\ structureValidation.error[2] = "f2.json"

\* C13 as stated: merge of no files fails with the reason "no documents".
C13_NoDocumentsReason ==
  Merged /\ Len(files) = 0 =>
    mergeResult = [success |-> FALSE, error |-> <<"no documents">>]

\* C13 amended: merge of no files returns success=false with no data and the
\* reason "No files to merge", and throws nothing.
C13_NoFilesToMerge ==
  Merged /\ Len(files) = 0 =>
    mergeResult = [success |-> FALSE, error |-> <<"No files to merge">>]

C13_Witness ==
  /\ pc = "merged"
  /\ files = <<>>
  /\ mergeResult.success = FALSE
  /\ "data" \notin DOMAIN mergeResult

\* C14: merge succeeds, with a merged value, on every non-empty sequence of
\* files that the check accepts.
C14_MergerCannotFail ==
  Merged /\ Len(files) > 0 /\ structureValidation.isValid =>
    /\ mergeResult.success
    /\ "data" \in DOMAIN mergeResult

\* C15: a merge result is a success with data (an array or an object) and no
\* error, or a failure with an error text and no data; the check returns a
\* verdict; neither lets an exception out.
C15_SuccessOrCleanFailure ==
  /\ Validated =>
       /\ "isValid" \in DOMAIN structureValidation
       /\ structureValidation.isValid => DOMAIN structureValidation = {"isValid"}
       /\ ~structureValidation.isValid =>
            /\ DOMAIN structureValidation = {"isValid", "error"}
            /\ Len(structureValidation.error) > 0
  /\ Merged =>
       /\ "success" \in DOMAIN mergeResult
       /\ mergeResult.success =>
            /\ DOMAIN mergeResult = {"success", "data"}
            /\ mergeResult.data.k \in {"array", "object"}
       /\ ~mergeResult.success =>
            /\ DOMAIN mergeResult = {"success", "error"}
            /\ Len(mergeResult.error) > 0

C15_Witness ==
  /\ pc = "merged"
  /\ Roots = <<Map([a |-> Num(1)]), Map([hasOwnProperty |-> Num(1)])>>
  /\ structureValidation.isValid
  /\ mergeResult = [success |-> FALSE, error |-> <<"source.hasOwnProperty is not a function">>]

NonNull(value) == value # Null

\* C19: a null source erases nothing: for a key that several Map files
\* have, the merged value is the merge, in upload order, of the values that
\* are not null, so a later null leaves the earlier value in place.
C19_NullNeverErases ==
  Merged /\ Len(files) > 0 /\ AllMapRoots /\ structureValidation.isValid =>
    \A key \in AllKeys(Roots) :
      LET values == ValuesOf(Roots, Len(Roots), key)
          kept == SelectSeq(values, NonNull)
      IN Len(values) >= 2 /\ Len(kept) >= 1 =>
           /\ mergeResult.success
           /\ key \in OwnKeys(mergeResult.data)
           /\ mergeResult.data.v[key] = MergeInOrder(kept, Len(kept))

\* two values that deepMerge does not combine: of different kinds, or scalars
KindMismatch(target, source) ==
  \/ CoarseKind(target) # CoarseKind(source)
  \/ IsScalar(target) /\ IsScalar(source)

\* C20: when two Map files carry, under the same key, non-null values of
\* mismatched kinds, the merged value of the key is the later file's value
\* as it is, and no error is reported.
C20_SourceWinsOnMismatch ==
  Merged /\ Len(files) = 2 /\ AllMapRoots /\ structureValidation.isValid =>
    \A key \in OwnKeys(files[1].content) \cap OwnKeys(files[2].content) :
      LET target == files[1].content.v[key]
          source == files[2].content.v[key]
      IN NonNull(target) /\ NonNull(source) /\ KindMismatch(target, source) =>
           /\ mergeResult.success
           /\ key \in OwnKeys(mergeResult.data)
           /\ mergeResult.data.v[key] = source

(***************************************************************************)
(* C16.  Frame.                                                            *)
(***************************************************************************)
\* the cells the uploaded files occupy
InputCells == Uploaded(files).cells

\* the outcome of calling mergeJsonFiles once more on the same file objects
RepeatedCall ==
  LET m == mergeJsonFilesAt(heap.cells, heap.files)
  IN ResultAt(m.h, m.v)

\* the outcome of calling validateStructureConsistency once more
RepeatedCheck == validateStructureConsistency(FilesAt(heap.cells, heap.files))

\* C16: the check and the merge leave every input document as it was: after
\* any number of calls every cell of every uploaded file (its name, its root
\* and everything below the root) holds what it held after the upload, and
\* calling the check or the merge again on the same documents returns the
\* same verdict and the same result.
C16_InputsUnchanged ==
  /\ SubSeq(heap.cells, 1, Len(InputCells)) = InputCells
  /\ FilesAt(heap.cells, heap.files) = files
  /\ Validated => RepeatedCheck = structureValidation
  /\ Merged => RepeatedCall = mergeResult
  /\ pc = "merged" => ResultAt(heap.cells, heap.returned) = mergeResult
  /\ pc = "prefix" => ResultAt(heap.cells, heap.returned) = prefixResult
  /\ pc = "chained" => ResultAt(heap.cells, heap.returned) = chainedResult

\* a merge that built new objects below the root, next to inputs that kept theirs
C16_Witness ==
  /\ pc = "chained"
  /\ Roots = <<Map([a |-> Map([a |-> Num(1)])]), Map([a |-> Map([d |-> Null])])>>
  /\ mergeResult.success
  /\ mergeResult.data = Map([a |-> Map([a |-> Num(1), d |-> Undefined])])
  /\ Len(heap.cells) > Len(InputCells)
  /\ Deref(heap.cells, heap.cells[heap.files[1].a].v.content) = Roots[1]

(***************************************************************************)
(* C17.  What the uploader lets through.                                   *)
(***************************************************************************)
IsListOrMap(value) == value.k \in {"array", "object"}

\* the text of the file was read and JSON.parse returns a List or a Map for it
WellFormedDocument(file) ==
  /\ file.text.k = "text"
  /\ JSONParse(file.text.v).k # "throw"
  /\ IsListOrMap(JSONParse(file.text.v))

\* processFiles pushed a JsonFile for the file
Accepted(b, file) ==
  \E k \in 1..Len(b.newJsonFiles) : b.newJsonFiles[k].name = file.name

\* processFiles pushed an upload error for the file
ErrorRecorded(b, file) ==
  \E k \in 1..Len(b.errors) : b.errors[k].fileName = file.name /\ Len(b.errors[k].error) > 0

\* C17: for every file processFiles has gone through: if its text is
\* malformed or its root is a scalar or null, validateJsonString returned
\* isValid = false with an error; a JsonFile was added for it only if
\* validateJsonString returned isValid = true, its content then being the
\* parsed List or Map, and otherwise an upload error was recorded for it.
\* Every file in the uploaded lists has a List or a Map as its root.
C17_OnlyValidDocumentsUploaded ==
  /\ uploader.batch # Null =>
        \A j \in 1..(uploader.batch.i - 1) :
          LET b == uploader.batch
              file == b.files[j]
              validation == validateJsonString(file.text.v)
          IN /\ file.text.k = "text" /\ ~WellFormedDocument(file) =>
                  /\ ~validation.isValid
                  /\ "error" \in DOMAIN validation
                  /\ Len(validation.error) > 0
             /\ Accepted(b, file) =>
                  /\ file.text.k = "text"
                  /\ validation.isValid
                  /\ WellFormedDocument(file)
                  /\ \A k \in 1..Len(b.newJsonFiles) :
                       b.newJsonFiles[k].name = file.name =>
                         b.newJsonFiles[k].content = JSONParse(file.text.v)
             /\ ~Accepted(b, file) => ErrorRecorded(b, file)
  /\ \A i \in 1..Len(uploader.uploadedFiles) : IsListOrMap(uploader.uploadedFiles[i].content)
  /\ \A i \in 1..Len(page.uploadedFiles) : IsListOrMap(page.uploadedFiles[i].content)

\* a drop of a List document and a scalar document went through: one file
\* uploaded, one upload error shown
C17_Witness ==
  /\ uploader.batch # Null
  /\ ~uploader.isProcessing
  /\ uploader.batch.files = <<Dropped[1], Dropped[3]>>
  /\ Len(page.uploadedFiles) = 1
  /\ page.uploadedFiles[1].content = List(<<Num(1)>>)
  /\ page.uploadErrors =
       <<[fileName |-> "c.json", error |-> <<"JSON must be an object or array at root level">>]>>

(***************************************************************************)
(* C18.  Download.                                                         *)
(***************************************************************************)
\* C18 as stated: downloadJsonFile is never called while the mergeResult of
\* the page is null or has success = false, and never with null data.
C18_DownloadOnlyWhileSuccess ==
  \A i \in 1..Len(download.calls) :
    /\ download.calls[i].current # Null
    /\ download.calls[i].current.success
    /\ download.calls[i].data # Null

\* C18 (amended): a download is started only while the mergeResult of the
\* page has success = true, with its data; downloadJsonFile is called with
\* the data the download was started with, never with null, and writes that
\* data.
C18_DownloadOnlySuccessfulResult ==
  /\ \A i \in 1..Len(download.timers) :
       /\ download.timers[i].clicked # Null
       /\ download.timers[i].clicked.success
       /\ download.timers[i].data = download.timers[i].clicked.data
       /\ IsListOrMap(download.timers[i].data)
  /\ \A i \in 1..Len(download.calls) :
       /\ download.calls[i].clicked # Null
       /\ download.calls[i].clicked.success
       /\ download.calls[i].data = download.calls[i].clicked.data
       /\ IsListOrMap(download.calls[i].data)
       /\ download.calls[i].file = downloadJsonFile(download.calls[i].data)

\* a download of the result shown, and one that ended after the files were
\* cleared
C18_Witness ==
  /\ Len(download.calls) = 2
  /\ download.calls[1].current = download.calls[1].clicked
  /\ download.calls[1].data = List(<<Num(1)>>)
  /\ download.calls[2].current = Null
  /\ download.calls[2].data = List(<<Num(1)>>)

(***************************************************************************)
(* C21.  Removal while a batch is being processed.                         *)
(***************************************************************************)
\* the files of a list
FilesOf(fs) == {fs[i] : i \in 1..Len(fs)}

\* the files removeFile or clearAllFiles took from the list since the batch
\* that is being processed was dropped
RemovedWhileProcessing == FilesOf(uploader.batch.closure) \ FilesOf(uploader.uploadedFiles)

\* C21: when processFiles completes, the list it hands to onFilesChange
\* holds no file that was removed while the batch was being processed, and
\* holds every file the batch accepted.
C21_RemovedNeverReappears ==
  [][uploader.isProcessing /\ ~uploader'.isProcessing =>
       /\ FilesOf(page'.uploadedFiles) \cap RemovedWhileProcessing = {}
       /\ FilesOf(uploader'.uploadedFiles) \cap RemovedWhileProcessing = {}
       /\ FilesOf(uploader'.batch.newJsonFiles) \subseteq FilesOf(page'.uploadedFiles)]_vars

(***************************************************************************)
(* C22.  The merge result of the page and its file list.                   *)
(***************************************************************************)
\* the outcome for a file list: nothing for no files, else the merge of the
\* files or the failure of their validation
OutcomeFor(fs) ==
  IF Len(fs) = 0 THEN Null
  ELSE IF validateStructureConsistency(fs).isValid THEN mergeJsonFiles(fs)
  ELSE [success |-> FALSE, error |-> validateStructureConsistency(fs).error]

\* no effect of JsonMerger is waiting to run
EffectsHaveRun == merger.pending = Null

\* C22: once the pending effects have run, the mergeResult of the page is
\* the outcome for its current file list: null for an empty list, else the
\* merge of the current files or the failure of their validation.
C22_ResultFollowsFiles ==
  EffectsHaveRun => page.mergeResult = OutcomeFor(page.uploadedFiles)
====
